---- MODULE Spec2Model ----
(***************************************************************************)
(* Model of src/main.py: the checkpoint loader (load_checkpoint), the      *)
(* Synthesizer (construction, inference, inference_phrase) and the         *)
(* __main__ script that dispatches on --mode.                              *)
(*                                                                         *)
(* Text is a sequence of one-character strings.  A parameter name is a     *)
(* sequence of tokens, "module." being one token.  A waveform is a         *)
(* sequence of integer samples.  The acoustic model, the vocoder, torch,   *)
(* the file system and tacotron2.hparams are outside main.py: what they    *)
(* return is drawn from small sets where main.py observes it.              *)
(***************************************************************************)
EXTENDS Integers, Sequences, FiniteSets, TLC

(***************************************************************************)
(* Bounds of the model.                                                    *)
(***************************************************************************)
\* longest phrase handed to inference_phrase directly
MaxLen == 5
\* longest --text of a run of the script
MaxTextLen == 3
\* largest explicit sep_length besides the default
MaxSep == 2

(***************************************************************************)
(* Program constants.                                                      *)
(***************************************************************************)
\* def inference_phrase(self, phrase, sep_length=4000)
DefaultSepLength == 4000

NL == "\n"
Chars == {"a", "b", " ", NL}
\* the characters of the alphabet that str.strip() removes
Whitespace == {" ", NL, "\t", "\r", "\f"}

SeqsUpTo(S, n) == UNION {[1..k -> S] : k \in 0..n}

(***************************************************************************)
(* str.strip() and str.split('\n') as Python computes them.                *)
(***************************************************************************)
RECURSIVE LStrip(_)
LStrip(s) ==
    IF s = <<>> THEN s
    ELSE IF Head(s) \in Whitespace THEN LStrip(Tail(s)) ELSE s

RECURSIVE RStrip(_)
RStrip(s) ==
    IF s = <<>> THEN s
    ELSE IF s[Len(s)] \in Whitespace THEN RStrip(SubSeq(s, 1, Len(s) - 1)) ELSE s

Strip(s) == RStrip(LStrip(s))

RECURSIVE Split(_, _)
Split(s, sep) ==
    IF \A i \in 1..Len(s) : s[i] # sep THEN <<s>>
    ELSE LET i == CHOOSE j \in 1..Len(s) :
                      s[j] = sep /\ \A h \in 1..(j - 1) : s[h] # sep
         IN  <<SubSeq(s, 1, i - 1)>> \o Split(SubSeq(s, i + 1, Len(s)), sep)

\* np.zeros(n)
Zeros(n) == [i \in 1..n |-> 0]

\* the arrays joined last first
RECURSIVE HStackReversed(_)
HStackReversed(as) == IF as = <<>> THEN <<>> ELSE HStackReversed(Tail(as)) \o Head(as)

\* np.hstack(list of 1-d arrays)
RECURSIVE HStack(_)
HStack(as) == IF as = <<>> THEN <<>> ELSE Head(as) \o HStack(Tail(as))

\* the lines with the empty ones left out, as phrase.split() would
PhraseTextsNoEmpty(p) == SelectSeq(Split(Strip(p), NL), LAMBDA t : t # <<>>)

\* texts = phrase.strip().split('\n')
PhraseTexts(p) == Split(Strip(p), NL)

\* silence of the default length whatever sep_length is
SilenceSegmentDefault(n) == Zeros(DefaultSepLength)

\* np.zeros(sep_length), the segment of an empty line
SilenceSegment(n) == Zeros(n)

\* the waveforms a forward pass (tacotron.inference, waveglow.infer) may return
ModelOutputs == {<<1>>, <<0, 1>>, <<1, 1, 0>>}
\* hparams.sampling_rate as tacotron2.hparams resolves it
SamplingRates == {16000, 22050}

(***************************************************************************)
(* Checkpoints, models and the command line.                               *)
(***************************************************************************)
ModulePrefix == "module."
\* the parameter names of a freshly constructed model
ParamNames == {<<"w">>, <<"b">>}
\* the parameter names a checkpoint may hold: plain, or saved under DataParallel
CkptKeys == ParamNames \cup {<<ModulePrefix>> \o k : k \in ParamNames}
StateDicts == UNION {[K -> {1}] : K \in SUBSET CkptKeys}
EmptyDict == [k \in {} |-> 1]
\* the parameters of a model before any checkpoint is applied
InitParams == [k \in ParamNames |-> 0]

\* what a path may hold; keys are the top-level keys of the pickled dictionary
Unobserved == [kind |-> "unobserved", keys |-> {}, state_dict |-> EmptyDict]
AbsentFile == [kind |-> "absent", keys |-> {}, state_dict |-> EmptyDict]
Bundles ==
    {[kind |-> "bundle", keys |-> {"iteration", "state_dict"}, state_dict |-> sd] :
        sd \in StateDicts}
    \cup {[kind |-> "bundle", keys |-> K, state_dict |-> EmptyDict] :
        K \in {{}, {"iteration", "model"}}}
Files ==
    {AbsentFile,
     [kind |-> "dir", keys |-> {}, state_dict |-> EmptyDict],
     [kind |-> "corrupt", keys |-> {}, state_dict |-> EmptyDict]} \cup Bundles

Paths == {"tac.pt", "wg.pt"}
PathValues == {""} \cup Paths
Modes == {"train_tacotron", "train_waveglow", "synthesize"}
\* attributes main.py reads that its own add_argument calls do not define; they
\* exist on args only if tacotron2.hparams.add_hparams defines them
HParamAttrs == {"tacotron_checkpoint", "waveglow_checkpoint", "best_waveglow__path"}

\* k.replace("module.", "") of a key
ReplaceModule(k) == SelectSeq(k, LAMBDA t : t # ModulePrefix)

\* {k.replace("module.", ""): v for k, v in state_dict.items()}
remove_module_prefix(state_dict) ==
    [k \in {ReplaceModule(h) : h \in DOMAIN state_dict} |->
        state_dict[CHOOSE h \in DOMAIN state_dict : ReplaceModule(h) = k]]

\* the membership test left out
HasStateDictUnchecked(d) == TRUE

\* 'state_dict' in checkpoint_dict
HasStateDict(d) == "state_dict" \in d.keys

\* load_state_dict(sd, strict=False) never raises on the keys
StateDictNeverMismatch(params, sd) == FALSE

\* model.load_state_dict(sd) is strict: it raises when a parameter of the model is
\* missing from sd or sd holds a key the model has not
StateDictMismatch(params, sd) == DOMAIN sd # DOMAIN params

\* the parameters after load_state_dict: every key both have is copied
LoadedParams(params, sd) ==
    [k \in DOMAIN params |-> IF k \in DOMAIN sd THEN sd[k] ELSE params[k]]

NoModel == [made |-> FALSE, params |-> InitParams]
FreshModel == [made |-> TRUE, params |-> InitParams]
NoDenoiser == [made |-> FALSE, bias |-> InitParams]

VARIABLES
    pc,               \* where the program is
    err,              \* the exception that ended the run, if any
    args,             \* the parsed command line: attribute name -> string
    text,             \* args.text
    fs,               \* the file system: path -> what main.py has observed there
    tacotron,         \* self.tacotron
    waveglow,         \* self.waveglow
    denoiser,         \* self.denoiser
    sampling_rate,    \* self.hparams.sampling_rate
    synthesizer,      \* whether the name synthesizer is bound to a Synthesizer
    tacotron_check,   \* Synthesizer.__init__'s local
    waveglow_check,   \* Synthesizer.__init__'s local
    frame,            \* the model load_checkpoint was last called on
    checkpoint_path,  \* load_checkpoint's checkpoint_path
    checkpoint_dict,  \* load_checkpoint's checkpoint_dict, <<>> until torch.load returns
    phrase,           \* inference_phrase's phrase
    sep_length,       \* inference_phrase's sep_length
    texts,            \* inference_phrase's texts
    audios,           \* the segments collected so far
    calls,            \* the calls of inference made: text, audio and rate returned
    result,           \* what inference_phrase returned, <<>> until it returns
    written,          \* the calls of sf.write made
    log               \* the external calls made, in order

envVars == <<args, text>>
objVars == <<tacotron, waveglow, denoiser, sampling_rate, synthesizer>>
initVars == <<tacotron_check, waveglow_check>>
loadVars == <<frame, checkpoint_path, checkpoint_dict>>
phraseVars == <<phrase, sep_length, texts, audios, calls, result>>

vars == <<pc, err, envVars, fs, objVars, initVars, loadVars, phraseVars, written, log>>

NoError == [type |-> "", info |-> {}]
Raise(type, info) ==
    /\ err' = [type |-> type, info |-> info]
    /\ pc' = "raised"
Event(op) == [op |-> op, who |-> frame]
Logged(op, who) == \E i \in 1..Len(log) : log[i] = [op |-> op, who |-> who]

\* what checkpoint_path holds
FileAt(p) == IF p \in Paths THEN fs[p] ELSE AbsentFile

\* the file system answers about a path for the first time, or as it did before
Observe(p, f) ==
    IF p \in Paths
    THEN fs[p] \in {Unobserved, f} /\ fs' = [fs EXCEPT ![p] = f]
    ELSE f = AbsentFile /\ fs' = fs

\* os.path.exists(checkpoint_path): a directory passes
IsFileOrDir(f) == f.kind # "absent"

\* os.path.isfile(checkpoint_path)
IsFile(f) == f.kind \in {"corrupt", "bundle"}

\* return audio[0].cpu().numpy(), self.hparams.sampling_rate
InferenceReturn(audio) == [audio |-> audio, sampling_rate |-> sampling_rate]

\* the rate written into the code instead of read from the hyperparameters
PhraseReturnValueFixedRate(as) == [audio |-> HStack(as), sampling_rate |-> 22050]

\* return np.hstack(audios), self.hparams.sampling_rate
PhraseReturnValue(as) == [audio |-> HStack(as), sampling_rate |-> sampling_rate]

(***************************************************************************)
(* __main__: the dispatch on args.mode.                                    *)
(***************************************************************************)
TrainTacotron ==
    /\ pc = "main"
    /\ args["mode"] = "train_tacotron"
    /\ log' = Append(log, [op |-> "tacotron_train", who |-> ""])
    /\ pc' = "done"
    /\ UNCHANGED <<err, envVars, fs, objVars, initVars, loadVars, phraseVars, written>>

TrainWaveglow ==
    /\ pc = "main"
    /\ args["mode"] = "train_waveglow"
    /\ log' = Append(log, [op |-> "waveglow_train", who |-> ""])
    /\ pc' = "done"
    /\ UNCHANGED <<err, envVars, fs, objVars, initVars, loadVars, phraseVars, written>>

\* if not args.tacotron_checkpoint or not args.waveglow_checkpoint:
\* reading an attribute args does not have raises AttributeError
ValidateAttributeError ==
    /\ pc = "main"
    /\ args["mode"] = "synthesize"
    /\ \/ /\ "tacotron_checkpoint" \notin DOMAIN args
          /\ Raise("AttributeError", {"tacotron_checkpoint"})
       \/ /\ "tacotron_checkpoint" \in DOMAIN args
          /\ args["tacotron_checkpoint"] # ""
          /\ "waveglow_checkpoint" \notin DOMAIN args
          /\ Raise("AttributeError", {"waveglow_checkpoint"})
    /\ UNCHANGED <<envVars, fs, objVars, initVars, loadVars, phraseVars, written, log>>

\* raise ValueError("Both Tacotron2 and WaveGlow checkpoints are required ...")
ValidateRaise ==
    /\ pc = "main"
    /\ args["mode"] = "synthesize"
    /\ "tacotron_checkpoint" \in DOMAIN args
    /\ \/ args["tacotron_checkpoint"] = ""
       \/ /\ "waveglow_checkpoint" \in DOMAIN args
          /\ args["waveglow_checkpoint"] = ""
    /\ Raise("ValueError", {})
    /\ UNCHANGED <<envVars, fs, objVars, initVars, loadVars, phraseVars, written, log>>

ValidatePass ==
    /\ pc = "main"
    /\ args["mode"] = "synthesize"
    /\ {"tacotron_checkpoint", "waveglow_checkpoint"} \subseteq DOMAIN args
    /\ args["tacotron_checkpoint"] # ""
    /\ args["waveglow_checkpoint"] # ""
    /\ pc' = "init_args"
    /\ UNCHANGED <<err, envVars, fs, objVars, initVars, loadVars, phraseVars, written, log>>

(***************************************************************************)
(* Synthesizer.__init__                                                    *)
(***************************************************************************)
\* tacotron_check = args.best_tacotron_path
\* waveglow_check = args.best_waveglow__path
SynthInitArgs ==
    /\ pc = "init_args"
    /\ "best_waveglow__path" \in DOMAIN args
    /\ tacotron_check' = args["best_tacotron_path"]
    /\ waveglow_check' = args["best_waveglow__path"]
    /\ pc' = "init_tacotron"
    /\ UNCHANGED <<err, envVars, fs, objVars, loadVars, phraseVars, written, log>>

SynthInitAttributeError ==
    /\ pc = "init_args"
    /\ "best_waveglow__path" \notin DOMAIN args
    /\ Raise("AttributeError", {"best_waveglow__path"})
    /\ UNCHANGED <<envVars, fs, objVars, initVars, loadVars, phraseVars, written, log>>

\* self.hparams = get_hparams(args, parser)
\* self.tacotron = Tacotron2(self.hparams).to(device).eval()
\* and the call load_checkpoint(tacotron_check, self.tacotron)
SynthInitTacotron ==
    /\ pc = "init_tacotron"
    /\ sampling_rate' \in SamplingRates
    /\ tacotron' = FreshModel
    /\ frame' = "tacotron"
    /\ checkpoint_path' = tacotron_check
    /\ checkpoint_dict' = <<>>
    /\ log' = Append(log, [op |-> "Tacotron2", who |-> "tacotron"])
    /\ pc' = "load_assert"
    /\ UNCHANGED <<err, envVars, fs, waveglow, denoiser, synthesizer, initVars,
                   phraseVars, written>>

\* with open('/waveglow/config.json') as f: ... ["waveglow_config"]
\* self.waveglow = WaveGlow(**waveglow_config).to(device).eval()
\* and the call load_checkpoint(waveglow_check, self.waveglow)
SynthInitWaveglow ==
    /\ pc = "open_config"
    /\ waveglow' = FreshModel
    /\ frame' = "waveglow"
    /\ checkpoint_path' = waveglow_check
    /\ checkpoint_dict' = <<>>
    /\ log' = Append(log, [op |-> "WaveGlow", who |-> "waveglow"])
    /\ pc' = "load_assert"
    /\ UNCHANGED <<err, envVars, fs, tacotron, denoiser, sampling_rate, synthesizer,
                   initVars, phraseVars, written>>

\* /waveglow/config.json cannot be opened
SynthInitConfigRaise ==
    /\ pc = "open_config"
    /\ Raise("FileNotFoundError", {"/waveglow/config.json"})
    /\ UNCHANGED <<envVars, fs, objVars, initVars, loadVars, phraseVars, written, log>>

\* self.denoiser = Denoiser(self.waveglow); __init__ returns and
\* synthesizer = Synthesizer(args, device) binds the object
SynthInitDenoiser ==
    /\ pc = "denoiser"
    /\ denoiser' = [made |-> TRUE, bias |-> waveglow.params]
    /\ synthesizer' = TRUE
    /\ log' = Append(log, [op |-> "Denoiser", who |-> "waveglow"])
    /\ pc' = "constructed"
    /\ UNCHANGED <<err, envVars, fs, tacotron, waveglow, sampling_rate, initVars,
                   loadVars, phraseVars, written>>

(***************************************************************************)
(* load_checkpoint(checkpoint_path, model); model is self.<frame>          *)
(***************************************************************************)
Model == IF frame = "tacotron" THEN tacotron ELSE waveglow
SetParams(ps) ==
    IF frame = "tacotron"
    THEN tacotron' = [tacotron EXCEPT !.params = ps] /\ UNCHANGED waveglow
    ELSE waveglow' = [waveglow EXCEPT !.params = ps] /\ UNCHANGED tacotron

\* assert os.path.isfile(checkpoint_path) holds
LoadAssertPass ==
    /\ pc = "load_assert"
    /\ \E f \in Files : Observe(checkpoint_path, f) /\ IsFile(f)
    /\ log' = Append(log, Event("isfile"))
    /\ pc' = "load_torch"
    /\ UNCHANGED <<err, envVars, objVars, initVars, loadVars, phraseVars, written>>

\* assert os.path.isfile(checkpoint_path), f"Checkpoint {checkpoint_path} not found."
LoadAssertRaise ==
    /\ pc = "load_assert"
    /\ \E f \in Files : Observe(checkpoint_path, f) /\ ~IsFile(f)
    /\ log' = Append(log, Event("isfile"))
    /\ Raise("AssertionError", {checkpoint_path})
    /\ UNCHANGED <<envVars, objVars, initVars, loadVars, phraseVars, written>>

\* checkpoint_dict = torch.load(checkpoint_path, map_location='cpu')
TorchLoad ==
    /\ pc = "load_torch"
    /\ FileAt(checkpoint_path).kind = "bundle"
    /\ checkpoint_dict' = <<[keys |-> FileAt(checkpoint_path).keys,
                             state_dict |-> FileAt(checkpoint_path).state_dict]>>
    /\ log' = Append(log, Event("torch.load"))
    /\ pc' = "load_check"
    /\ UNCHANGED <<err, envVars, fs, objVars, initVars, frame, checkpoint_path,
                   phraseVars, written>>

\* torch.load raises: the file is no pickle, or cannot be opened
TorchLoadRaise ==
    /\ pc = "load_torch"
    /\ FileAt(checkpoint_path).kind # "bundle"
    /\ log' = Append(log, Event("torch.load"))
    /\ Raise(IF FileAt(checkpoint_path).kind = "corrupt"
             THEN "UnpicklingError" ELSE "FileNotFoundError", {checkpoint_path})
    /\ UNCHANGED <<envVars, fs, objVars, initVars, loadVars, phraseVars, written>>

\* if 'state_dict' in checkpoint_dict:
\*     model.load_state_dict(checkpoint_dict['state_dict'])     (no key mismatch)
LoadStateDict ==
    /\ pc = "load_check"
    /\ HasStateDict(checkpoint_dict[1])
    /\ ~StateDictMismatch(Model.params, checkpoint_dict[1].state_dict)
    /\ SetParams(LoadedParams(Model.params, checkpoint_dict[1].state_dict))
    /\ log' = Append(log, Event("load_state_dict"))
    /\ pc' = "load_return"
    /\ UNCHANGED <<err, envVars, fs, denoiser, sampling_rate, synthesizer, initVars,
                   loadVars, phraseVars, written>>

\* model.load_state_dict raises RuntimeError on missing or unexpected keys, after
\* copying the parameters whose keys match
LoadStateDictRaise ==
    /\ pc = "load_check"
    /\ HasStateDict(checkpoint_dict[1])
    /\ StateDictMismatch(Model.params, checkpoint_dict[1].state_dict)
    /\ SetParams(LoadedParams(Model.params, checkpoint_dict[1].state_dict))
    /\ log' = Append(log, Event("load_state_dict"))
    /\ Raise("RuntimeError", {"load_state_dict"})
    /\ UNCHANGED <<envVars, fs, denoiser, sampling_rate, synthesizer, initVars,
                   loadVars, phraseVars, written>>

\* raise KeyError(f"Invalid checkpoint format: {checkpoint_dict.keys()} ...")
LoadKeyError ==
    /\ pc = "load_check"
    /\ ~HasStateDict(checkpoint_dict[1])
    /\ Raise("KeyError", checkpoint_dict[1].keys)
    /\ UNCHANGED <<envVars, fs, objVars, initVars, loadVars, phraseVars, written, log>>

\* return model, back in Synthesizer.__init__
LoadReturn ==
    /\ pc = "load_return"
    /\ pc' = IF frame = "tacotron" THEN "open_config" ELSE "denoiser"
    /\ UNCHANGED <<err, envVars, fs, objVars, initVars, loadVars, phraseVars, written, log>>

(***************************************************************************)
(* Synthesizer.inference_phrase, one list-comprehension element at a time. *)
(***************************************************************************)
\* audio, sampling_rate = synthesizer.inference_phrase(args.text)
CallInferencePhrase ==
    /\ pc = "constructed"
    /\ phrase' = text
    /\ sep_length' = DefaultSepLength
    /\ pc' = "phrase_split"
    /\ UNCHANGED <<err, envVars, fs, objVars, initVars, loadVars, texts, audios, calls,
                   result, written, log>>

PhraseSplit ==
    /\ pc = "phrase_split"
    /\ texts' = PhraseTexts(phrase)
    /\ audios' = <<>>
    /\ pc' = "phrase_loop"
    /\ UNCHANGED <<err, envVars, fs, objVars, initVars, loadVars, phrase, sep_length,
                   calls, result, written, log>>

\* the element of a non-empty text: self.inference(text)[0]
PhraseInference ==
    /\ pc = "phrase_loop"
    /\ Len(audios) < Len(texts)
    /\ texts[Len(audios) + 1] # <<>>
    /\ \E out \in ModelOutputs :
          LET r == InferenceReturn(out) IN
          /\ calls' = Append(calls, [text |-> texts[Len(audios) + 1],
                                     audio |-> r.audio,
                                     sampling_rate |-> r.sampling_rate])
          /\ audios' = Append(audios, r.audio)
    /\ UNCHANGED <<pc, err, envVars, fs, objVars, initVars, loadVars, phrase,
                   sep_length, texts, result, written, log>>

\* a forward pass that fails: the exception leaves inference_phrase
PhraseInferenceRaise ==
    /\ pc = "phrase_loop"
    /\ Len(audios) < Len(texts)
    /\ texts[Len(audios) + 1] # <<>>
    /\ Raise("RuntimeError", {"forward"})
    /\ UNCHANGED <<envVars, fs, objVars, initVars, loadVars, phraseVars, written, log>>

\* the element of an empty text: np.zeros(sep_length)
PhraseSilence ==
    /\ pc = "phrase_loop"
    /\ Len(audios) < Len(texts)
    /\ texts[Len(audios) + 1] = <<>>
    /\ audios' = Append(audios, SilenceSegment(sep_length))
    /\ UNCHANGED <<pc, err, envVars, fs, objVars, initVars, loadVars, phrase,
                   sep_length, texts, calls, result, written, log>>

PhraseReturn ==
    /\ pc = "phrase_loop"
    /\ Len(audios) = Len(texts)
    /\ result' = <<PhraseReturnValue(audios)>>
    /\ pc' = "phrase_done"
    /\ UNCHANGED <<err, envVars, fs, objVars, initVars, loadVars, phrase, sep_length,
                   texts, audios, calls, written, log>>

\* the file written as soon as the first segment exists
WriteOutputPerSegment ==
    /\ pc = "phrase_loop"
    /\ audios # <<>>
    /\ written = <<>>
    /\ written' = Append(written, [path |-> args["output_audio"],
                                   audio |-> HStack(audios),
                                   sampling_rate |-> sampling_rate])
    /\ log' = Append(log, [op |-> "sf.write", who |-> ""])
    /\ UNCHANGED <<pc, err, envVars, fs, objVars, initVars, loadVars, phraseVars>>

\* sf.write(args.output_audio, audio, sampling_rate)
WriteOutput ==
    /\ pc = "phrase_done"
    /\ written' = Append(written, [path |-> args["output_audio"],
                                   audio |-> result[1].audio,
                                   sampling_rate |-> result[1].sampling_rate])
    /\ log' = Append(log, [op |-> "sf.write", who |-> ""])
    /\ pc' = "done"
    /\ UNCHANGED <<err, envVars, fs, objVars, initVars, loadVars, phraseVars>>

(***************************************************************************)
(* One run of the script, for every command line of the bounds.            *)
(***************************************************************************)
ParsedArgs(m, t, w) ==
    [mode |-> m, best_tacotron_path |-> t, best_waveglow_path |-> w,
     output_audio |-> "out.wav"]

\* the values add_hparams may give an attribute of HParamAttrs it defines
HParamValues(a) == IF a = "tacotron_checkpoint" THEN {"", "tac.pt"} ELSE {"", "wg.pt"}

ArgsSet ==
    {ParsedArgs(m, t, w) @@ x :
        m \in Modes, t \in {"", "tac.pt"}, w \in {"", "wg.pt"},
        x \in UNION {{f \in [E -> PathValues] : \A a \in E : f[a] \in HParamValues(a)} :
                        E \in SUBSET HParamAttrs}}

Init ==
    /\ pc = "main"
    /\ err = NoError
    /\ args \in ArgsSet
    /\ text \in SeqsUpTo(Chars, MaxTextLen)
    /\ fs = [p \in Paths |-> Unobserved]
    /\ tacotron = NoModel
    /\ waveglow = NoModel
    /\ denoiser = NoDenoiser
    /\ sampling_rate = 0
    /\ synthesizer = FALSE
    /\ tacotron_check = ""
    /\ waveglow_check = ""
    /\ frame = ""
    /\ checkpoint_path = ""
    /\ checkpoint_dict = <<>>
    /\ phrase = <<>>
    /\ sep_length = 0
    /\ texts = <<>>
    /\ audios = <<>>
    /\ calls = <<>>
    /\ result = <<>>
    /\ written = <<>>
    /\ log = <<>>

Next ==
    \/ TrainTacotron
    \/ TrainWaveglow
    \/ ValidateAttributeError
    \/ ValidateRaise
    \/ ValidatePass
    \/ SynthInitArgs
    \/ SynthInitAttributeError
    \/ SynthInitTacotron
    \/ SynthInitWaveglow
    \/ SynthInitConfigRaise
    \/ SynthInitDenoiser
    \/ LoadAssertPass
    \/ LoadAssertRaise
    \/ TorchLoad
    \/ TorchLoadRaise
    \/ LoadStateDict
    \/ LoadStateDictRaise
    \/ LoadKeyError
    \/ LoadReturn
    \/ CallInferencePhrase
    \/ PhraseSplit
    \/ PhraseInference
    \/ PhraseInferenceRaise
    \/ PhraseSilence
    \/ PhraseReturn
    \/ WriteOutput

Spec == Init /\ [][Next]_vars

(***************************************************************************)
(* inference_phrase on a constructed Synthesizer, for every phrase and     *)
(* sep_length of the bounds.                                               *)
(***************************************************************************)
SepLengths == (0..MaxSep) \cup {DefaultSepLength}

TrainedParams == [k \in ParamNames |-> 1]
GoodFile ==
    [kind |-> "bundle", keys |-> {"iteration", "state_dict"}, state_dict |-> TrainedParams]
\* the external calls of a construction that succeeded
ConstructionLog ==
    <<[op |-> "Tacotron2", who |-> "tacotron"],
      [op |-> "isfile", who |-> "tacotron"],
      [op |-> "torch.load", who |-> "tacotron"],
      [op |-> "load_state_dict", who |-> "tacotron"],
      [op |-> "WaveGlow", who |-> "waveglow"],
      [op |-> "isfile", who |-> "waveglow"],
      [op |-> "torch.load", who |-> "waveglow"],
      [op |-> "load_state_dict", who |-> "waveglow"],
      [op |-> "Denoiser", who |-> "waveglow"]>>

InitPhrase ==
    /\ pc = "phrase_split"
    /\ err = NoError
    /\ args = ParsedArgs("synthesize", "tac.pt", "wg.pt")
                @@ [a \in HParamAttrs |->
                        IF a = "tacotron_checkpoint" THEN "tac.pt" ELSE "wg.pt"]
    /\ text = <<>>
    /\ fs = [p \in Paths |-> GoodFile]
    /\ tacotron = [made |-> TRUE, params |-> TrainedParams]
    /\ waveglow = [made |-> TRUE, params |-> TrainedParams]
    /\ denoiser = [made |-> TRUE, bias |-> TrainedParams]
    /\ sampling_rate \in SamplingRates
    /\ synthesizer = TRUE
    /\ tacotron_check = "tac.pt"
    /\ waveglow_check = "wg.pt"
    /\ frame = "waveglow"
    /\ checkpoint_path = "wg.pt"
    /\ checkpoint_dict = <<[keys |-> GoodFile.keys, state_dict |-> TrainedParams]>>
    /\ phrase \in SeqsUpTo(Chars, MaxLen)
    /\ sep_length \in SepLengths
    /\ texts = <<>>
    /\ audios = <<>>
    /\ calls = <<>>
    /\ result = <<>>
    /\ written = <<>>
    /\ log = ConstructionLog

NextPhrase ==
    \/ PhraseSplit
    \/ PhraseInference
    \/ PhraseInferenceRaise
    \/ PhraseSilence
    \/ PhraseReturn

SpecPhrase == InitPhrase /\ [][NextPhrase]_vars

(***************************************************************************)
(* What the properties below say of text, stated without Strip and Split.  *)
(***************************************************************************)
\* p without its leading and trailing whitespace
Trimmed(p) ==
    LET keep == {i \in 1..Len(p) : p[i] \notin Whitespace} IN
    IF keep = {} THEN <<>>
    ELSE SubSeq(p, CHOOSE i \in keep : \A j \in keep : i <= j,
                   CHOOSE i \in keep : \A j \in keep : j <= i)

\* the lines of s: what lies between consecutive line breaks, empty lines included
LinesOf(s) ==
    LET cuts == {0, Len(s) + 1} \cup {i \in 1..Len(s) : s[i] = NL}
        cut(n) == CHOOSE c \in cuts : Cardinality({d \in cuts : d < c}) = n
    IN  [j \in 1..(Cardinality(cuts) - 1) |-> SubSeq(s, cut(j - 1) + 1, cut(j) - 1)]

RECURSIVE SumLen(_)
SumLen(as) == IF as = <<>> THEN 0 ELSE Len(Head(as)) + SumLen(Tail(as))

\* the number of non-empty lines among the first i of L
Spoken(L, i) == Cardinality({h \in 1..i : L[h] # <<>>})

\* the segment line i of L must yield: silence, or what its call of inference returned
Segment(L, i) ==
    IF L[i] = <<>> THEN [x \in 1..sep_length |-> 0] ELSE calls[Spoken(L, i)].audio

\* the first n of segs joined, built from the last one back
RECURSIVE Joined(_, _)
Joined(segs, n) == IF n = 0 THEN <<>> ELSE Joined(segs, n - 1) \o segs[n]

\* inference_phrase returned one segment per line of L, in the order of L
OneSegmentPerLine(L) ==
    /\ result # <<>>
    /\ Len(calls) = Spoken(L, Len(L))
    /\ \A i \in 1..Len(L) : L[i] # <<>> => calls[Spoken(L, i)].text = L[i]
    /\ Len(result[1].audio) =
          SumLen([i \in 1..Len(calls) |-> calls[i].audio])
            + (Len(L) - Spoken(L, Len(L))) * sep_length
    /\ result[1].audio = Joined([i \in 1..Len(L) |-> Segment(L, i)], Len(L))

\* C1 as claimed: inference_phrase yields one segment per line of the phrase as
\* given, leading and trailing empty lines included, in line order, and the sample
\* count is the sum of the synthesized lengths plus sep_length per empty line.
C1_EveryLineKept == pc = "phrase_done" => OneSegmentPerLine(LinesOf(phrase))

\* C1 amended: inference_phrase yields one segment per line of the phrase with its
\* leading and trailing whitespace (line breaks included) removed; every interior
\* empty line gives sep_length zero samples, every other line the audio of its own
\* call of inference, in line order, nothing dropped, reordered or deduplicated.
C1_EveryLineOfStrippedKept ==
    pc = "phrase_done" => OneSegmentPerLine(LinesOf(Trimmed(phrase)))

C1_Witness ==
    /\ pc = "phrase_done"
    /\ phrase = <<" ", "a", NL, NL, "b">>
    /\ sep_length = MaxSep
    /\ Len(calls) = 2
    /\ Len(result[1].audio) = Len(calls[1].audio) + MaxSep + Len(calls[2].audio)

\* phrase is A + "\n" + B for non-empty single-line A and B
IsTwoLines(p) ==
    /\ Cardinality({i \in 1..Len(p) : p[i] = NL}) = 1
    /\ p[1] # NL
    /\ p[Len(p)] # NL
LineA(p) == SubSeq(p, 1, (CHOOSE i \in 1..Len(p) : p[i] = NL) - 1)
LineB(p) == SubSeq(p, (CHOOSE i \in 1..Len(p) : p[i] = NL) + 1, Len(p))

\* inference was called on A and then on B and the result is their audio, nothing else
ReturnsAThenB(p) ==
    /\ Len(calls) = 2
    /\ calls[1].text = LineA(p)
    /\ calls[2].text = LineB(p)
    /\ result[1].audio = calls[1].audio \o calls[2].audio

\* C2 as claimed: for all non-empty single-line A and B, inference_phrase(A\nB) is
\* the samples of inference(A) followed by those of inference(B), nothing else.
C2_TwoLinesConcatenate ==
    (pc = "phrase_done" /\ IsTwoLines(phrase)) => ReturnsAThenB(phrase)

\* C2 amended: the same for A that does not start and B that does not end with
\* whitespace.
C2_TwoStrippedLinesConcatenate ==
    (/\ pc = "phrase_done"
     /\ IsTwoLines(phrase)
     /\ phrase[1] \notin Whitespace
     /\ phrase[Len(phrase)] \notin Whitespace) => ReturnsAThenB(phrase)

C2_Witness ==
    /\ pc = "phrase_done"
    /\ phrase = <<"a", NL, "b">>
    /\ Len(calls) = 2
    /\ calls[1].audio = <<1, 1, 0>>
    /\ calls[2].audio = <<0, 1>>
    /\ result[1].audio = <<1, 1, 0, 0, 1>>

\* C3: inference_phrase("") returns exactly sep_length samples, all zero, for every
\* sep_length, and never calls inference.
C3_EmptyPhraseIsSilence ==
    phrase = <<>> =>
        /\ calls = <<>>
        /\ pc # "raised"
        /\ pc = "phrase_done" =>
              /\ Len(result[1].audio) = sep_length
              /\ \A x \in 1..sep_length : result[1].audio[x] = 0

C3_Witness ==
    /\ pc = "phrase_done"
    /\ phrase = <<>>
    /\ sep_length = DefaultSepLength
    /\ Len(result[1].audio) = DefaultSepLength
    /\ calls = <<>>

\* model holds exactly the parameters of the state_dict of the bundle at path
FullyLoaded(model, path) ==
    /\ model.made
    /\ FileAt(path).kind = "bundle"
    /\ "state_dict" \in FileAt(path).keys
    /\ model.params = FileAt(path).state_dict

InInference == pc \in {"phrase_split", "phrase_loop", "phrase_done"}

\* C4: a Synthesizer is handed to the caller, and a forward pass is made, only
\* after both checkpoints were loaded in full and the denoiser was derived from
\* the loaded vocoder; a failed construction leaves no Synthesizer.
C4_ForwardPassOnlyWhenBothLoaded ==
    /\ (calls # <<>> \/ InInference \/ written # <<>>) => synthesizer
    /\ synthesizer =>
          /\ FullyLoaded(tacotron, tacotron_check)
          /\ FullyLoaded(waveglow, waveglow_check)
          /\ denoiser.made
          /\ denoiser.bias = waveglow.params
          /\ Logged("Denoiser", "waveglow")
    /\ (pc = "raised" /\ ~Logged("Denoiser", "waveglow")) => ~synthesizer

C4_Witness ==
    /\ pc = "phrase_loop"
    /\ calls # <<>>
    /\ synthesizer
    /\ tacotron.params = TrainedParams
    /\ waveglow.params = TrainedParams

\* C5: load_checkpoint on a bundle without 'state_dict' raises KeyError naming the
\* top-level keys found, never returns and leaves the model as it was.
C5_MissingStateDictRaises ==
    (/\ checkpoint_dict # <<>>
     /\ "state_dict" \notin checkpoint_dict[1].keys
     /\ pc # "load_check") =>
        /\ pc = "raised"
        /\ err = [type |-> "KeyError", info |-> FileAt(checkpoint_path).keys]
        /\ Model.params = InitParams
        /\ ~Logged("load_state_dict", frame)
        /\ ~synthesizer

C5_Witness ==
    /\ pc = "raised"
    /\ frame = "waveglow"
    /\ checkpoint_dict # <<>>
    /\ err = [type |-> "KeyError", info |-> {"iteration", "model"}]

\* the keys of sd are the model's parameter names, each under the "module." prefix
AllPrefixed(sd) ==
    /\ \A k \in DOMAIN sd : Head(k) = ModulePrefix
    /\ {Tail(k) : k \in DOMAIN sd} = ParamNames

\* C6: a checkpoint whose parameter names carry the "module." prefix is loaded with
\* the prefix stripped: load_checkpoint does not raise and the model holds the
\* parameters of the stripped mapping, as for the unprefixed checkpoint.
C6_PrefixedCheckpointLoads ==
    (/\ checkpoint_dict # <<>>
     /\ "state_dict" \in checkpoint_dict[1].keys
     /\ AllPrefixed(checkpoint_dict[1].state_dict)
     /\ pc # "load_check") =>
        /\ err # [type |-> "RuntimeError", info |-> {"load_state_dict"}]
        /\ Model.params = remove_module_prefix(checkpoint_dict[1].state_dict)

\* C7: load_checkpoint on a path that is no regular file raises the not-found
\* assertion before torch.load is called and leaves the model as it was.
C7_MissingFileRaises ==
    (/\ frame # ""
     /\ pc # "load_assert"
     /\ FileAt(checkpoint_path).kind \in {"absent", "dir"}) =>
        /\ pc = "raised"
        /\ err = [type |-> "AssertionError", info |-> {checkpoint_path}]
        /\ ~Logged("torch.load", frame)
        /\ checkpoint_dict = <<>>
        /\ Model.params = InitParams
        /\ ~synthesizer

C7_Witness ==
    /\ pc = "raised"
    /\ frame = "waveglow"
    /\ FileAt(checkpoint_path).kind = "dir"
    /\ err.type = "AssertionError"

\* C8: in synthesize mode the output file is written at most once, with the whole
\* result of inference_phrase, after construction succeeded; a run that ends with
\* an error has written nothing.
C8_OutputWrittenOnlyOnSuccess ==
    /\ Len(written) <= 1
    /\ written # <<>> =>
          /\ args["mode"] = "synthesize"
          /\ synthesizer
          /\ err = NoError
          /\ result # <<>>
          /\ Len(audios) = Len(texts)
          /\ written[1].audio = result[1].audio
          /\ written[1].path = args["output_audio"]
    /\ (pc = "raised" \/ err # NoError) => written = <<>>
    /\ (pc = "done" /\ args["mode"] = "synthesize") => Len(written) = 1

C8_Witness ==
    /\ pc = "done"
    /\ Len(written) = 1
    /\ Len(calls) = 2
    /\ written[1].audio = calls[1].audio \o calls[2].audio

\* C9: in synthesize mode a missing --best_tacotron_path or --best_waveglow_path
\* ends the run with the configuration error (ValueError) of the validation step,
\* before any model is constructed or any checkpoint load is attempted; and the
\* paths the constructor loads are the validated ones.
C9_MissingCheckpointFailsValidation ==
    /\ (/\ args["mode"] = "synthesize"
        /\ args["best_tacotron_path"] = "" \/ args["best_waveglow_path"] = ""
        /\ pc # "main") =>
          /\ pc = "raised"
          /\ err.type = "ValueError"
          /\ log = <<>>
    /\ Logged("Tacotron2", "tacotron") =>
          /\ tacotron_check = args["best_tacotron_path"]
          /\ waveglow_check = args["best_waveglow_path"]

\* C10: every call of inference and inference_phrase returns the sampling rate of
\* the hyperparameters resolved at construction, whatever the text.
C10_ConfiguredSamplingRate ==
    /\ \A i \in 1..Len(calls) : calls[i].sampling_rate = sampling_rate
    /\ result # <<>> => result[1].sampling_rate = sampling_rate
    /\ \A i \in 1..Len(written) : written[i].sampling_rate = sampling_rate
    /\ synthesizer => sampling_rate \in SamplingRates

C10_Witness ==
    /\ pc = "done"
    /\ Len(calls) = 2
    /\ sampling_rate = 16000
    /\ calls[1].sampling_rate = 16000
    /\ result[1].sampling_rate = 16000

====
